---- MODULE Spec2Model ----
(***************************************************************************)
(* delivery: one data source (a popen'ed producer command) delivered to a  *)
(* changing set of clients connected over a Unix-domain socket.            *)
(*                                                                         *)
(* The server of src/delivery.c is modelled statement by statement: pc is  *)
(* the position of the single flow of control, the asynchronous signal     *)
(* handlers (sig_die, reopen_src) may run between any two statements, and  *)
(* the clients and the producer are the environment.                       *)
(***************************************************************************)
EXTENDS Integers, Sequences, FiniteSets, TLC

\* ------------------------------------------------------------------ bounds
\* capacity of fd[] (1024 in the source, scaled down so that the
\* capacity branch of check_for_new_clients is reached)
MAXCLIENT == 2
\* bufsz, the size of the transfer buffer in bytes (page size in the source)
BufSz == 2
\* how many buffers a run reads from the producers
MaxRead == 2
\* how many producers a run spawns (popen fails beyond, as it may at any time)
MaxSpawn == 2
\* how many termination signals (SIGTERM, SIGINT) a run receives
MaxSig == 1
\* the counters of close and pclose calls per handle stop counting here
MaxCount == 2

\* one more connection than the registry holds
MaxConn == MAXCLIENT + 1
Conns == 1..MaxConn
\* how many invocations of the server there are, and how many starts in all
NInst == 2
MaxStart == 3
Insts == 1..NInst
Prods == 1..MaxSpawn

VARIABLES
    \* ---- static data of the server (delivery.c:112-123) and its locals
    pc,         \* position of the flow of control
    ret,        \* where close_src returns to: "open" (open_src) or "die" (die)
    src,        \* FILE *src: NULL or the producer behind the handle
    reopen,     \* int reopen
    fd,         \* int fd[MAXCLIENT]
    cnt,        \* int cnt
    src_fd,     \* int src_fd: 0 or the listening socket
    client_fd,  \* local of check_for_new_clients: the connection just accepted
    wi,         \* local i of write_buf
    nr,         \* local nr of write_buf (off is bufsz - nr)
    wj,         \* local j of write_buf
    buffer,     \* char *buffer: <<>> is NULL, else its bufsz bytes
    bufsz,      \* int bufsz
    err,        \* int err
    errno,      \* the C library's errno
    chld,       \* disposition of SIGCHLD: "none", "die" (sig_die) or "dfl"
    \* ---- the environment: sockets, producers, files
    lblock,     \* the listening socket is in blocking mode
    conn,       \* per connection: "none", "pending", "open", "closed"
    gone,       \* connections whose peer has gone away
    blocking,   \* accepted connections that are in blocking mode
    closes,     \* per connection: how many times the server called close on it
    log,        \* per connection: the bytes written to it, in order
    prod,       \* per producer: "none", "running", "eof", "exited", "reaped"
    avail,      \* the open producer has a full buffer of output ready
    pcloses,    \* per producer: how many times pclose was called on its handle
    sockFile,   \* SOCKFILE exists in the filesystem
    pidFile,    \* PIDFILE exists in the filesystem
    denv,       \* _DELIVERY_PID in the server's environment: "unset", "own" (the
                \* server's pid) or "other"
    penv,       \* per producer: _DELIVERY_PID in the environment it was spawned with
    \* ---- history
    nread,      \* buffers read so far
    joined,     \* per connection: nread when it was put into the registry
    nzero,      \* times the registry went from empty to non-empty
    nrestart,   \* restart requests consumed by open_src
    rsnap,      \* registry and producer when open_src consumed a restart
    dsnap,      \* registry and index when write_buf started dropping a client
    dying,      \* how die was entered: cause, exit code, cnt at entry
    nsig,       \* termination signals received so far
    nhup,       \* restart requests taken by reopen_src since open_src last consumed one
    \* ---- server invocations of the same name (main, delivery.c:618-659)
    ipc,        \* per invocation: its position
    lockHolder, \* the invocation that holds the lock on LOCKFILE, or 0
    pidOwner,   \* the invocation whose pid PIDFILE holds, or 0 (no file)
    sockOwner,  \* the invocation that bound SOCKFILE, or 0 (no file)
    touched,    \* invocations that have written or removed PIDFILE or SOCKFILE
    nstart      \* invocations started so far

regv   == <<fd, cnt>>
accv   == <<src_fd, client_fd, lblock>>
srcv   == <<src, reopen, chld, ret>>
bufv   == <<buffer, bufsz, err, nread>>
wrv    == <<wi, nr, wj>>
connv  == <<conn, gone, blocking, closes, log, joined>>
prodv  == <<prod, avail, pcloses>>
filev  == <<sockFile, pidFile>>
instv  == <<ipc, lockHolder, pidOwner, sockOwner, touched, nstart>>
envv   == <<denv, penv>>
histv  == <<nzero, nrestart, rsnap, dsnap, nsig, nhup, envv, instv>>
vars   == <<pc, errno, dying, regv, accv, srcv, bufv, wrv, connv, prodv, filev, histv>>
\* everything but the invocations
serverv == <<pc, errno, dying, regv, accv, srcv, bufv, wrv, connv, prodv, filev,
             nzero, nrestart, rsnap, dsnap, nsig, nhup, envv>>

\* ------------------------------------------------------------------ helpers
\* the registry fd[0..cnt) as a sequence
Registry == [k \in 1..cnt |-> fd[k - 1]]

SeqRange(s) == {s[k] : k \in 1..Len(s)}

RemoveAt(s, k) == [x \in 1..(Len(s) - 1) |-> IF x < k THEN s[x] ELSE s[x + 1]]

Min(S) == CHOOSE x \in S : \A y \in S : x <= y

Pending == {c \in Conns : conn[c] = "pending"}

Spawned == {p \in Prods : prod[p] # "none"}

Running == {p \in Prods : prod[p] \in {"running", "eof"}}

\* the bytes of the k-th buffer of the stream, numbered 1, 2, ... over the run
Block(k) == [o \in 1..BufSz |-> (k - 1) * BufSz + o]

NoSnap == [on |-> FALSE]

Alive == pc \notin {"exited", "aborted"}

Dying == dying.cause # "none"

\* die(message, e) is entered (delivery.c:143): the cleanup starts at rm_sockfile.
\* die never returns, and it reads only src_fd, src, cnt, fd and the SIGCHLD
\* disposition: what it cannot read (the locals of the interrupted functions,
\* errno, the buffer, the restart flag, the socket modes) and the history of
\* the deliveries are not carried through the cleanup
Die(cause, e, newprod, newsig) ==
    /\ pc' = "d_rmsock"
    /\ dying' = [cause |-> IF Dying THEN dying.cause ELSE cause,
                 code  |-> e,
                 cnt0  |-> IF Dying THEN dying.cnt0 ELSE cnt]
    /\ prod' = newprod
    /\ nsig' = newsig
    /\ nhup' = 0
    /\ wi' = 0 /\ nr' = 0 /\ wj' = 0 /\ err' = 0 /\ client_fd' = 0
    /\ errno' = "0" /\ buffer' = <<>> /\ reopen' = FALSE /\ avail' = FALSE
    /\ lblock' = TRUE /\ blocking' = {} /\ gone' = {}
    /\ log' = [c \in Conns |-> <<>>]
    /\ joined' = [c \in Conns |-> 0]
    /\ nread' = 0 /\ nzero' = 0 /\ nrestart' = 0
    /\ rsnap' = NoSnap /\ dsnap' = NoSnap
    /\ UNCHANGED <<ret, src, fd, cnt, src_fd, bufsz, chld, conn, closes, pcloses,
                   sockFile, pidFile, envv, instv>>

EnterDie(cause, e) == Die(cause, e, prod, nsig)

\* ------------------------------------------------------------------ Init
InitServer ==
    /\ pc = "m_setenv"
    /\ denv \in {"unset", "other"}
    /\ penv = [p \in Prods |-> "none"]
    /\ ret = "open"
    /\ src = 0
    /\ reopen = FALSE
    /\ fd = [k \in 0..(MAXCLIENT - 1) |-> 0]
    /\ cnt = 0
    /\ src_fd = 0
    /\ client_fd = 0
    /\ wi = 0
    /\ nr = 0
    /\ wj = 0
    /\ buffer = <<>>
    /\ bufsz = 0
    /\ err = 0
    /\ errno = "0"
    /\ chld = "none"
    /\ lblock = TRUE
    /\ conn = [c \in Conns |-> "none"]
    /\ gone = {}
    /\ blocking = {}
    /\ closes = [c \in Conns |-> 0]
    /\ log = [c \in Conns |-> <<>>]
    /\ prod = [p \in Prods |-> "none"]
    /\ avail = FALSE
    /\ pcloses = [p \in Prods |-> 0]
    /\ sockFile = FALSE
    /\ pidFile = FALSE
    /\ nread = 0
    /\ joined = [c \in Conns |-> 0]
    /\ nzero = 0
    /\ nrestart = 0
    /\ rsnap = NoSnap
    /\ dsnap = NoSnap
    /\ dying = [cause |-> "none", code |-> "0", cnt0 |-> 0]
    /\ nsig = 0
    /\ nhup = 0

InitInst ==
    /\ ipc = [k \in Insts |-> "idle"]
    /\ lockHolder = 0
    /\ pidOwner = 0
    /\ sockOwner = 0
    /\ touched = {}
    /\ nstart = 0

Init == InitServer /\ InitInst

\* ------------------------------------------------------------------ main
\* main, delivery.c:645-647: setenv(DELIVERYPID, cp, 0) with cp the server's
\* pid; with overwrite 0 a variable that is already set keeps its value
MainSetenv ==
    /\ pc = "m_setenv"
    /\ denv' = IF denv = "unset" THEN "own" ELSE denv
    /\ pc' = "m_signals"
    /\ UNCHANGED <<errno, dying, regv, accv, srcv, bufv, wrv, connv, prodv, filev,
                   nzero, nrestart, rsnap, dsnap, nsig, nhup, penv, instv>>

\* delivery.c:652-657: the handlers are installed
MainSignals ==
    /\ pc = "m_signals"
    /\ chld' = "die"
    /\ pc' = "m_pidfile"
    /\ UNCHANGED <<errno, dying, regv, accv, src, reopen, ret, bufv, wrv, connv,
                   prodv, filev, histv>>

\* wrt_pidfile, delivery.c:194-204, called at delivery.c:659
WrtPidfile ==
    /\ pc = "m_pidfile"
    /\ \/ /\ pidFile' = TRUE
          /\ pc' = "c_first"
          /\ UNCHANGED <<errno, dying, regv, accv, srcv, bufv, wrv, connv, prodv,
                         sockFile, histv>>
       \/ EnterDie("fatal", "EOTHER")

\* ------------------------------------------------------------------ check_for_new_clients
\* delivery.c:267-291: first time through, the socket is created, bound and
\* listened on; rm_sockfile (232-240) unlinks a stale SOCKFILE before
SockFirst ==
    /\ pc = "c_first"
    /\ IF src_fd # 0
       THEN /\ pc' = "c_block"
            /\ UNCHANGED <<errno, dying, regv, accv, srcv, bufv, wrv, connv, prodv,
                           filev, histv>>
       ELSE \/ /\ src_fd' = 1
               /\ lblock' = TRUE
               /\ sockFile' = TRUE
               /\ pc' = "c_block"
               /\ UNCHANGED <<errno, dying, regv, client_fd, srcv, bufv, wrv, connv,
                              prodv, pidFile, histv>>
            \/ EnterDie("fatal", "EOTHER")

\* delivery.c:303-307: with no clients the listening socket is made blocking
BlockIfIdle ==
    /\ pc = "c_block"
    /\ lblock' = IF cnt = 0 THEN TRUE ELSE lblock
    /\ pc' = "c_accept"
    /\ UNCHANGED <<errno, dying, regv, src_fd, client_fd, srcv, bufv, wrv, connv,
                   prodv, filev, histv>>

\* delivery.c:310-319: accept; connections are taken in the order they arrived,
\* a blocking accept with nothing pending waits
Accept ==
    /\ pc = "c_accept"
    /\ \/ /\ Pending # {}
          /\ LET c == Min(Pending) IN
                /\ client_fd' = c
                /\ conn' = [conn EXCEPT ![c] = "open"]
                /\ blocking' = IF lblock THEN blocking \cup {c} ELSE blocking \ {c}
          /\ pc' = "c_nonblock"
          /\ UNCHANGED <<errno, dying, regv, src_fd, lblock, srcv, bufv, wrv, gone,
                         closes, log, joined, prodv, filev, histv>>
       \/ /\ Pending = {}
          /\ ~lblock
          /\ errno' = "EAGAIN"
          /\ pc' = "o_test1"
          /\ UNCHANGED <<dying, regv, accv, srcv, bufv, wrv, connv, prodv, filev, histv>>
       \/ EnterDie("fatal", "EOTHER")

\* variant of check_for_new_clients without mk_nonblocking(src_fd) at 325
AcceptNonblock_Skip ==
    /\ pc = "c_nonblock"
    /\ pc' = "c_cblock"
    /\ UNCHANGED <<errno, dying, regv, accv, srcv, bufv, wrv, connv, prodv, filev, histv>>

\* delivery.c:325: mk_nonblocking(src_fd)
AcceptNonblock ==
    /\ pc = "c_nonblock"
    /\ lblock' = FALSE
    /\ pc' = "c_cblock"
    /\ UNCHANGED <<errno, dying, regv, src_fd, client_fd, srcv, bufv, wrv, connv,
                   prodv, filev, histv>>

\* delivery.c:326: mk_blocking(client_fd) (167-174); a failing fcntl is fatal
AcceptClientBlock ==
    /\ pc = "c_cblock"
    /\ \/ /\ blocking' = blocking \cup {client_fd}
          /\ pc' = "c_add"
          /\ UNCHANGED <<errno, dying, regv, accv, srcv, bufv, wrv, conn, gone, closes,
                         log, joined, prodv, filev, histv>>
       \/ EnterDie("fatal", "EOTHER")

\* variant of check_for_new_clients for which a connection over capacity is fatal
AcceptAdd_Fatal ==
    /\ pc = "c_add"
    /\ IF cnt = MAXCLIENT
       THEN EnterDie("fatal", "EOTHER")
       ELSE /\ fd' = [fd EXCEPT ![cnt] = client_fd]
            /\ cnt' = cnt + 1
            /\ joined' = [joined EXCEPT ![client_fd] = nread]
            /\ nzero' = IF cnt = 0 THEN nzero + 1 ELSE nzero
            /\ client_fd' = 0
            /\ pc' = "c_accept"
            /\ UNCHANGED <<errno, dying, src_fd, lblock, srcv, bufv, wrv, conn, closes, gone,
                           blocking, log, prodv, filev, nrestart, rsnap, dsnap, nsig, nhup,
                           envv, instv>>

\* delivery.c:328-342: the connection is closed at capacity, else appended
AcceptAdd ==
    /\ pc = "c_add"
    /\ IF cnt = MAXCLIENT
       THEN /\ conn' = [conn EXCEPT ![client_fd] = "closed"]
            /\ closes' = [closes EXCEPT ![client_fd] = IF @ < MaxCount THEN @ + 1 ELSE @]
            /\ UNCHANGED <<regv, joined, nzero>>
       ELSE /\ fd' = [fd EXCEPT ![cnt] = client_fd]
            /\ cnt' = cnt + 1
            /\ joined' = [joined EXCEPT ![client_fd] = nread]
            /\ nzero' = IF cnt = 0 THEN nzero + 1 ELSE nzero
            /\ UNCHANGED <<conn, closes>>
    /\ client_fd' = 0
    /\ pc' = "c_accept"
    /\ UNCHANGED <<errno, dying, src_fd, lblock, srcv, bufv, wrv, gone, blocking, log,
                   prodv, filev, nrestart, rsnap, dsnap, nsig, nhup, envv, instv>>

\* ------------------------------------------------------------------ open_src, close_src
\* delivery.c:385: if ( reopen || cnt == 0 ) close_src();
OpenSrcTest1 ==
    /\ pc = "o_test1"
    /\ IF reopen \/ cnt = 0
       THEN /\ ret' = "open"
            /\ pc' = "cs_test"
            /\ nrestart' = IF reopen /\ cnt > 0 THEN nrestart + 1 ELSE nrestart
            /\ rsnap' = IF reopen /\ cnt > 0
                        THEN [on |-> TRUE, reg |-> Registry, old |-> src,
                              spawned |-> Cardinality(Spawned), closes |-> closes,
                              hups |-> nhup]
                        ELSE rsnap
            /\ nhup' = IF reopen /\ cnt > 0 THEN 0 ELSE nhup
       ELSE /\ pc' = "o_test2"
            /\ UNCHANGED <<ret, nrestart, rsnap, nhup>>
    /\ UNCHANGED <<errno, dying, regv, accv, src, reopen, chld, bufv, wrv, connv,
                   prodv, filev, nzero, dsnap, nsig, envv, instv>>

\* delivery.c:357: if ( src )
CloseSrcTest ==
    /\ pc = "cs_test"
    /\ pc' = IF src # 0 THEN "cs_dfl" ELSE "cs_reopen"
    /\ UNCHANGED <<errno, dying, regv, accv, srcv, bufv, wrv, connv, prodv, filev, histv>>

\* variant of close_src that leaves sig_die installed for SIGCHLD over pclose
CloseSrcDfl_Skip ==
    /\ pc = "cs_dfl"
    /\ pc' = "cs_pclose"
    /\ UNCHANGED <<errno, dying, regv, accv, srcv, bufv, wrv, connv, prodv, filev, histv>>

\* delivery.c:359: signal(SIGCHLD, SIG_DFL)
CloseSrcDfl ==
    /\ pc = "cs_dfl"
    /\ chld' = "dfl"
    /\ pc' = "cs_pclose"
    /\ UNCHANGED <<errno, dying, regv, accv, src, reopen, ret, bufv, wrv, connv,
                   prodv, filev, histv>>

\* delivery.c:360: pclose(src) closes the pipe and waits for the child; on a
\* handle that pclose has already freed the call is undefined: it may return
\* or end the process abnormally
CloseSrcPclose ==
    /\ pc = "cs_pclose"
    /\ prod' = [prod EXCEPT ![src] = "reaped"]
    /\ pcloses' = [pcloses EXCEPT ![src] = IF @ < MaxCount THEN @ + 1 ELSE @]
    /\ avail' = FALSE
    /\ IF pcloses[src] = 0
       THEN pc' = "cs_sig"
       ELSE pc' \in {"cs_sig", "aborted"}
    /\ UNCHANGED <<errno, dying, regv, accv, srcv, bufv, wrv, connv, filev, histv>>

\* delivery.c:363: signal(SIGCHLD, sig_die)
CloseSrcSig ==
    /\ pc = "cs_sig"
    /\ chld' = "die"
    /\ pc' = "cs_null"
    /\ UNCHANGED <<errno, dying, regv, accv, src, reopen, ret, bufv, wrv, connv,
                   prodv, filev, histv>>

\* delivery.c:364: src = NULL
CloseSrcNull ==
    /\ pc = "cs_null"
    /\ src' = 0
    /\ pc' = "cs_reopen"
    /\ UNCHANGED <<errno, dying, regv, accv, reopen, chld, ret, bufv, wrv, connv,
                   prodv, filev, histv>>

\* variant of close_src that keeps the restart flag set while the restart it
\* serves was asked for more than once: one cycle per request
CloseSrcReopen_PerRequest ==
    /\ pc = "cs_reopen"
    /\ reopen' = (ret = "open" /\ rsnap.on /\ rsnap.hups > 1)
    /\ pc' = IF ret = "open" THEN "o_test2" ELSE "d_clients"
    /\ UNCHANGED <<errno, dying, regv, accv, src, chld, ret, bufv, wrv, connv,
                   prodv, filev, histv>>

\* variant of close_src that leaves the restart flag set
CloseSrcReopen_Keep ==
    /\ pc = "cs_reopen"
    /\ pc' = IF ret = "open" THEN "o_test2" ELSE "d_clients"
    /\ UNCHANGED <<errno, dying, regv, accv, srcv, bufv, wrv, connv,
                   prodv, filev, histv>>

\* delivery.c:366: reopen = 0, and close_src returns to open_src or to die
CloseSrcReopen ==
    /\ pc = "cs_reopen"
    /\ reopen' = FALSE
    /\ pc' = IF ret = "open" THEN "o_test2" ELSE "d_clients"
    /\ UNCHANGED <<errno, dying, regv, accv, src, chld, ret, bufv, wrv, connv,
                   prodv, filev, histv>>

\* variant of open_src that returns at delivery.c:386 whatever src and cnt are
OpenSrcTest2_Return ==
    /\ pc = "o_test2"
    /\ pc' = "r_assert"
    /\ UNCHANGED <<errno, dying, regv, accv, srcv, bufv, wrv, connv, prodv, filev, histv>>

\* variant of the test at delivery.c:386 without "src ||": popen whenever
\* there are clients
OpenSrcTest2_NoSrcTest ==
    /\ pc = "o_test2"
    /\ pc' = IF cnt = 0 THEN "r_assert" ELSE "o_popen"
    /\ UNCHANGED <<errno, dying, regv, accv, srcv, bufv, wrv, connv, prodv, filev, histv>>

\* delivery.c:386: if ( src || cnt == 0 ) return;
OpenSrcTest2 ==
    /\ pc = "o_test2"
    /\ pc' = IF src # 0 \/ cnt = 0 THEN "r_assert" ELSE "o_popen"
    /\ UNCHANGED <<errno, dying, regv, accv, srcv, bufv, wrv, connv, prodv, filev, histv>>

\* delivery.c:388-396: popen of the command; a failing popen is fatal
OpenSrcPopen ==
    /\ pc = "o_popen"
    /\ \/ /\ Cardinality(Spawned) < MaxSpawn
          /\ LET p == Cardinality(Spawned) + 1 IN
                /\ src' = p
                /\ prod' = [prod EXCEPT ![p] = "running"]
                /\ penv' = [penv EXCEPT ![p] = denv]
          /\ avail' = FALSE
          /\ pc' = "r_assert"
          /\ UNCHANGED <<errno, dying, regv, accv, reopen, chld, ret, bufv, wrv, connv,
                         pcloses, filev, nzero, nrestart, rsnap, dsnap, nsig, nhup, denv,
                         instv>>
       \/ EnterDie("fatal", "EBADF")

\* ------------------------------------------------------------------ read_buf
\* delivery.c:404: assert(src); a failing assertion aborts without cleanup
ReadAssert ==
    /\ pc = "r_assert"
    /\ pc' = IF src = 0 THEN "aborted" ELSE "r_alloc"
    /\ UNCHANGED <<errno, dying, regv, accv, srcv, bufv, wrv, connv, prodv, filev, histv>>

\* delivery.c:406-430: the buffer is sized and allocated once
ReadAlloc ==
    /\ pc = "r_alloc"
    /\ IF buffer # <<>>
       THEN /\ pc' = "r_fread"
            /\ UNCHANGED <<errno, dying, regv, accv, srcv, bufv, wrv, connv, prodv,
                           filev, histv>>
       ELSE \/ /\ bufsz' = BufSz
               /\ buffer' = [o \in 1..BufSz |-> 0]
               /\ pc' = "r_fread"
               /\ UNCHANGED <<errno, dying, regv, accv, srcv, err, nread, wrv, connv,
                              prodv, filev, histv>>
            \/ EnterDie("fatal", "EOTHER")

\* delivery.c:432: err = fread(buffer, bufsz, 1, src). It returns 1 once the
\* producer has written a full buffer; 0 at end of stream, leaving errno as it
\* was; 0 with errno set on a read error; it waits otherwise
ReadFread ==
    /\ pc = "r_fread"
    /\ \/ /\ avail
          /\ nread' = nread + 1
          /\ buffer' = Block(nread + 1)
          /\ err' = 1
          /\ avail' = FALSE
          /\ UNCHANGED errno
       \/ /\ ~avail
          /\ prod[src] # "running"
          /\ err' = 0
          /\ UNCHANGED <<errno, nread, buffer, avail>>
       \/ /\ ~avail
          /\ err' = 0
          /\ errno' = "EOTHER"
          /\ UNCHANGED <<nread, buffer, avail>>
    /\ pc' = "r_while"
    /\ UNCHANGED <<dying, regv, accv, srcv, bufsz, wrv, connv, prod, pcloses, filev, histv>>

\* delivery.c:433: while ( err < 1 && ( errno == EINTR || errno == EAGAIN ) )
ReadWhile ==
    /\ pc = "r_while"
    /\ pc' = IF err < 1 /\ errno \in {"EINTR", "EAGAIN"} THEN "r_fread" ELSE "r_check"
    /\ UNCHANGED <<errno, dying, regv, accv, srcv, bufv, wrv, connv, prodv, filev, histv>>

\* delivery.c:435-438: if ( err != 1 ) die("fread", errno); return err == 1;
ReadCheck ==
    /\ pc = "r_check"
    /\ IF err # 1
       THEN EnterDie("fatal", errno)
       ELSE /\ pc' = "w_init"
            /\ UNCHANGED <<errno, dying, regv, accv, srcv, bufv, wrv, connv, prodv,
                           filev, histv>>

\* ------------------------------------------------------------------ write_buf
\* close(c) as the server calls it on a descriptor
CloseConn(c) ==
    /\ conn' = [k \in Conns |-> IF k = c THEN "closed" ELSE conn[k]]
    /\ closes' = [k \in Conns |-> IF k = c /\ closes[k] < MaxCount
                                  THEN closes[k] + 1 ELSE closes[k]]

\* delivery.c:446: int i = 0
WriteInit ==
    /\ pc = "w_init"
    /\ wi' = 0
    /\ rsnap' = NoSnap
    /\ pc' = "w_loop"
    /\ UNCHANGED <<errno, dying, regv, accv, srcv, bufv, nr, wj, connv, prodv, filev,
                   nzero, nrestart, dsnap, nsig, nhup, envv, instv>>

\* delivery.c:448-450: while ( i < cnt ) { int off, nw, nr = bufsz;
WriteLoop ==
    /\ pc = "w_loop"
    /\ IF wi < cnt
       THEN /\ nr' = bufsz
            /\ pc' = "w_write"
       ELSE /\ pc' = "m_while"
            /\ UNCHANGED nr
    /\ dsnap' = NoSnap
    /\ UNCHANGED <<errno, dying, regv, accv, srcv, bufv, wi, wj, connv, prodv, filev,
                   nzero, nrestart, rsnap, nsig, nhup, envv, instv>>

\* variant of write_buf that always writes from the start of the buffer
WriteWrite_NoOffset ==
    /\ pc = "w_write"
    /\ IF nr = 0
       THEN /\ pc' = "w_test"
            /\ UNCHANGED <<errno, nr, log>>
       ELSE LET c == fd[wi]
            IN  IF c \in Conns /\ conn[c] = "open" /\ c \notin gone
                THEN \E nw \in 1..nr :
                        /\ log' = [log EXCEPT ![c] = @ \o SubSeq(buffer, 1, nw)]
                        /\ nr' = nr - nw
                        /\ pc' = "w_write"
                        /\ UNCHANGED errno
                ELSE /\ errno' = "EOTHER"
                     /\ pc' = "w_test"
                     /\ UNCHANGED <<nr, log>>
    /\ UNCHANGED <<dying, regv, accv, srcv, bufv, wi, wj, conn, gone, blocking, closes,
                   joined, prodv, filev, histv>>

\* delivery.c:452-458: one turn of the for loop: write(fd[i], buffer + off, nr)
\* writes 1..nr bytes, or fails (break)
WriteWrite ==
    /\ pc = "w_write"
    /\ IF nr = 0
       THEN /\ pc' = "w_test"
            /\ UNCHANGED <<errno, nr, log>>
       ELSE LET c == fd[wi]
                off == bufsz - nr
            IN  IF c \in Conns /\ conn[c] = "open" /\ c \notin gone
                THEN \E nw \in 1..nr :
                        /\ log' = [log EXCEPT ![c] = @ \o SubSeq(buffer, off + 1, off + nw)]
                        /\ nr' = nr - nw
                        /\ pc' = "w_write"
                        /\ UNCHANGED errno
                ELSE /\ errno' = "EOTHER"
                     /\ pc' = "w_test"
                     /\ UNCHANGED <<nr, log>>
    /\ UNCHANGED <<dying, regv, accv, srcv, bufv, wi, wj, conn, gone, blocking, closes,
                   joined, prodv, filev, histv>>

\* delivery.c:460-465: a complete write moves on to the next client
WriteTest ==
    /\ pc = "w_test"
    /\ IF nr = 0
       THEN /\ wi' = wi + 1
            /\ pc' = "w_loop"
       ELSE /\ pc' = "w_close"
            /\ UNCHANGED wi
    /\ UNCHANGED <<errno, dying, regv, accv, srcv, bufv, nr, wj, connv, prodv, filev, histv>>

\* delivery.c:467-471: close(fd[i]); j = i + 1
WriteClose ==
    /\ pc = "w_close"
    /\ CloseConn(fd[wi])
    /\ dsnap' = [on |-> TRUE, reg |-> Registry, k |-> wi + 1, closes |-> closes]
    /\ wj' = wi + 1
    /\ pc' = "w_shift"
    /\ UNCHANGED <<errno, dying, regv, accv, srcv, bufv, wi, nr, gone, blocking, log,
                   joined, prodv, filev, nzero, nrestart, rsnap, nsig, nhup, envv, instv>>

\* variant of the drop without the shift of the later entries
WriteShift_None ==
    /\ pc = "w_shift"
    /\ pc' = "w_dec"
    /\ UNCHANGED <<errno, dying, regv, accv, srcv, bufv, wrv, connv, prodv, filev, histv>>

\* delivery.c:472-473: for ( ; j<cnt; j+=1 ) fd[j-1] = fd[j];
WriteShift ==
    /\ pc = "w_shift"
    /\ IF wj < cnt
       THEN /\ fd' = [fd EXCEPT ![wj - 1] = fd[wj]]
            /\ wj' = wj + 1
            /\ pc' = "w_shift"
       ELSE /\ pc' = "w_dec"
            /\ UNCHANGED <<fd, wj>>
    /\ UNCHANGED <<errno, dying, cnt, accv, srcv, bufv, wi, nr, connv, prodv, filev, histv>>

\* variant of the drop that moves on to the next index, past the client that
\* was shifted into the place of the dropped one
WriteDec_Skip ==
    /\ pc = "w_dec"
    /\ cnt' = cnt - 1
    /\ fd' = [fd EXCEPT ![cnt - 1] = 0]
    /\ wi' = wi + 1
    /\ pc' = "w_loop"
    /\ UNCHANGED <<errno, dying, accv, srcv, bufv, nr, wj, connv, prodv, filev, histv>>

\* delivery.c:475: fd[--cnt] = 0
WriteDec ==
    /\ pc = "w_dec"
    /\ cnt' = cnt - 1
    /\ fd' = [fd EXCEPT ![cnt - 1] = 0]
    /\ pc' = "w_loop"
    /\ UNCHANGED <<errno, dying, accv, srcv, bufv, wrv, connv, prodv, filev, histv>>

\* variant of the loop that never ends: while ( 1 )
MainWhile_Forever ==
    /\ pc = "m_while"
    /\ pc' = "c_first"
    /\ UNCHANGED <<errno, dying, regv, accv, srcv, bufv, wrv, connv, prodv, filev, histv>>

\* variant of the loop condition, inverted: while ( ! cnt )
MainWhile_Inverted ==
    /\ pc = "m_while"
    /\ IF cnt = 0
       THEN /\ pc' = "c_first"
            /\ UNCHANGED <<errno, dying, regv, accv, srcv, bufv, wrv, connv, prodv,
                           filev, histv>>
       ELSE EnterDie("loop", "0")

\* delivery.c:671-673: while ( cnt ); die("",0);
MainWhile ==
    /\ pc = "m_while"
    /\ IF cnt # 0
       THEN /\ pc' = "c_first"
            /\ UNCHANGED <<errno, dying, regv, accv, srcv, bufv, wrv, connv, prodv,
                           filev, histv>>
       ELSE EnterDie("loop", "0")

\* ------------------------------------------------------------------ die
\* delivery.c:145: rm_sockfile() (232-240)
DieRmSock ==
    /\ pc = "d_rmsock"
    /\ src_fd' = 0
    /\ sockFile' = FALSE
    /\ pc' = "d_rmpid"
    /\ UNCHANGED <<errno, dying, regv, client_fd, lblock, srcv, bufv, wrv, connv, prodv,
                   pidFile, histv>>

\* delivery.c:146-151: rm_pidfile() (189-192), then close_src() is called
DieRmPid ==
    /\ pc = "d_rmpid"
    /\ pidFile' = FALSE
    /\ ret' = "die"
    /\ pc' = "cs_test"
    /\ UNCHANGED <<errno, dying, regv, accv, src, reopen, chld, bufv, wrv, connv, prodv,
                   sockFile, histv>>

\* delivery.c:152-153: while ( cnt ) close(fd[--cnt]);
DieClients ==
    /\ pc = "d_clients"
    /\ IF cnt # 0
       THEN /\ cnt' = cnt - 1
            /\ IF fd[cnt - 1] \in Conns
               THEN CloseConn(fd[cnt - 1])
               ELSE UNCHANGED <<conn, closes>>
            /\ pc' = "d_clients"
       ELSE /\ pc' = "d_exit"
            /\ UNCHANGED <<cnt, conn, closes>>
    /\ UNCHANGED <<errno, dying, fd, accv, srcv, bufv, wrv, gone, blocking, log, joined,
                   prodv, filev, histv>>

\* delivery.c:155: exit(e); the atexit handlers rm_sockfile and rm_pidfile
\* (registered at 272 and 200) run once more
DieExit ==
    /\ pc = "d_exit"
    /\ src_fd' = 0
    /\ sockFile' = FALSE
    /\ pidFile' = FALSE
    /\ pc' = "exited"
    /\ UNCHANGED <<errno, dying, regv, client_fd, lblock, srcv, bufv, wrv, connv, prodv,
                   histv>>

\* ------------------------------------------------------------------ signal handlers
\* sig_die, delivery.c:158-161, installed for SIGTERM and SIGINT (653-654)
SigDie ==
    /\ Alive
    /\ chld # "none"
    /\ nsig < MaxSig
    /\ Die("signal", "SIGTERM", prod, nsig + 1)

\* variant of reopen_src that closes the source itself
ReopenSrc_Closes ==
    /\ Alive
    /\ ~Dying
    /\ chld # "none"
    /\ src # 0
    /\ reopen' = TRUE
    /\ nhup' = IF nhup < MaxCount THEN nhup + 1 ELSE nhup
    /\ src' = 0
    /\ UNCHANGED <<pc, errno, dying, regv, accv, chld, ret, bufv, wrv, connv, prodv,
                   filev, nzero, nrestart, rsnap, dsnap, nsig, envv, instv>>

\* variant of reopen_src that sets the flag whether or not the source is open
ReopenSrc_Always ==
    /\ Alive
    /\ ~Dying
    /\ chld # "none"
    /\ reopen' = TRUE
    /\ nhup' = IF src # 0 /\ nhup < MaxCount THEN nhup + 1 ELSE nhup
    /\ UNCHANGED <<pc, errno, dying, regv, accv, src, chld, ret, bufv, wrv, connv, prodv,
                   filev, nzero, nrestart, rsnap, dsnap, nsig, envv, instv>>

\* reopen_src, delivery.c:348-353, installed for SIGHUP (652)
ReopenSrc ==
    /\ Alive
    /\ ~Dying
    /\ chld # "none"
    /\ reopen' = IF src # 0 THEN TRUE ELSE reopen
    /\ nhup' = IF src # 0 /\ nhup < MaxCount THEN nhup + 1 ELSE nhup
    /\ UNCHANGED <<pc, errno, dying, regv, accv, src, chld, ret, bufv, wrv, connv, prodv,
                   filev, nzero, nrestart, rsnap, dsnap, nsig, envv, instv>>

\* reopen_src runs while the server waits in accept (310), fread (432) or
\* write (453), and the call returns -1 (0 for fread) with errno EINTR
ReopenSrcIntr ==
    /\ chld # "none"
    /\ reopen' = IF src # 0 THEN TRUE ELSE reopen
    /\ nhup' = IF src # 0 /\ nhup < MaxCount THEN nhup + 1 ELSE nhup
    /\ errno' = "EINTR"
    /\ \/ /\ pc = "c_accept"
          /\ lblock
          /\ Pending = {}
          /\ UNCHANGED <<pc, err>>
       \/ /\ pc = "r_fread"
          /\ ~avail
          /\ prod[src] = "running"
          /\ err' = 0
          /\ pc' = "r_while"
       \/ /\ pc = "w_write"
          /\ nr > 0
          /\ UNCHANGED <<pc, err>>
    /\ UNCHANGED <<dying, regv, accv, src, chld, ret, buffer, bufsz, nread, wrv, connv,
                   prodv, filev, nzero, nrestart, rsnap, dsnap, nsig, envv, instv>>

\* ------------------------------------------------------------------ environment
\* a client connects to the listening socket (client, delivery.c:516-520)
Connect ==
    /\ pc = "c_accept"
    /\ src_fd # 0
    /\ sockFile
    /\ \E c \in Conns :
          /\ conn[c] = "none"
          /\ \A k \in Conns : k < c => conn[k] # "none"
          /\ conn' = [conn EXCEPT ![c] = "pending"]
    /\ UNCHANGED <<pc, errno, dying, regv, accv, srcv, bufv, wrv, gone, blocking, closes,
                   log, joined, prodv, filev, histv>>

\* The peer of a connection goes away. The server observes it only in the
\* write to that connection (delivery.c:453), so a departure at any earlier
\* time is the departure just before that write
PeerGone ==
    /\ pc = "w_write"
    /\ nr > 0
    /\ fd[wi] \in Conns
    /\ fd[wi] \notin gone
    /\ gone' = gone \cup {fd[wi]}
    /\ UNCHANGED <<pc, errno, dying, regv, accv, srcv, bufv, wrv, conn, blocking, closes,
                   log, joined, prodv, filev, histv>>

\* the peers of all connected clients have gone away while the server waits
\* in fread (delivery.c:432)
LastPeerGone ==
    /\ pc = "r_fread"
    /\ ~avail
    /\ cnt > 0
    /\ SeqRange(Registry) \ gone # {}
    /\ gone' = gone \cup SeqRange(Registry)
    /\ UNCHANGED <<pc, errno, dying, regv, accv, srcv, bufv, wrv, conn, blocking, closes,
                   log, joined, prodv, filev, histv>>

\* the producer has written one more full buffer to its standard output
Produce ==
    /\ pc = "r_fread"
    /\ src # 0
    /\ prod[src] = "running"
    /\ ~avail
    /\ nread < MaxRead
    /\ avail' = TRUE
    /\ UNCHANGED <<pc, errno, dying, regv, accv, srcv, bufv, wrv, connv, prod, pcloses,
                   filev, histv>>

\* the producer closes its standard output and keeps running
ProducerEof ==
    /\ pc = "r_fread"
    /\ src # 0
    /\ prod[src] = "running"
    /\ prod' = [prod EXCEPT ![src] = "eof"]
    /\ UNCHANGED <<pc, errno, dying, regv, accv, srcv, bufv, wrv, connv, avail, pcloses,
                   filev, histv>>

\* the producer exits on its own: SIGCHLD is raised, and handled by sig_die
\* (delivery.c:656) unless close_src has set it to SIG_DFL (359)
ProducerExit ==
    /\ Alive
    /\ \E p \in Running :
          IF chld = "die"
          THEN Die("signal", "SIGCHLD", [prod EXCEPT ![p] = "exited"], nsig)
          ELSE /\ prod' = [prod EXCEPT ![p] = "exited"]
               /\ UNCHANGED <<pc, errno, dying, regv, accv, srcv, bufv, wrv, connv,
                              avail, pcloses, filev, histv>>

\* ------------------------------------------------------------------ specification
Server ==
    \/ MainSetenv \/ MainSignals \/ WrtPidfile
    \/ SockFirst \/ BlockIfIdle \/ Accept \/ AcceptNonblock \/ AcceptClientBlock \/ AcceptAdd
    \/ OpenSrcTest1 \/ OpenSrcTest2 \/ OpenSrcPopen
    \/ CloseSrcTest \/ CloseSrcDfl \/ CloseSrcPclose \/ CloseSrcSig \/ CloseSrcNull
    \/ CloseSrcReopen
    \/ ReadAssert \/ ReadAlloc \/ ReadFread \/ ReadWhile \/ ReadCheck
    \/ WriteInit \/ WriteLoop \/ WriteWrite \/ WriteTest \/ WriteClose \/ WriteShift
    \/ WriteDec \/ MainWhile
    \/ DieRmSock \/ DieRmPid \/ DieClients \/ DieExit

Signals == SigDie \/ ReopenSrc \/ ReopenSrcIntr

Environment == Connect \/ PeerGone \/ LastPeerGone \/ Produce \/ ProducerEof \/ ProducerExit

Next == Server \/ Signals \/ Environment

Spec == Init /\ [][Next]_vars

\* ------------------------------------------------------------------ server start-up
\* Invocations of delivery in server mode (with a command) under one name:
\* main from the lock (delivery.c:618) to the exit, the server loop between
\* being one position, "i_serve".
\* positions of an invocation: "i_..." on the way through the lock and the
\* server's set-up, "n_..." in die entered before the lock was tried
PastLock == {"i_sig", "i_pid", "i_sock", "i_serve", "i_d_rmsock", "i_d_rmpid", "i_d_rest"}

\* connect (delivery.c:519) succeeds when a serving invocation listens on SOCKFILE
Connectable == sockOwner # 0 /\ ipc[sockOwner] = "i_serve"

\* delivery is started: options, file names (delivery.c:546-603), then
\* - with -r (611, 613): reopen_server, and die(0, 0) whether or not the
\*   signal was sent (rd_pidfile and reopen_server die on failure);
\* - with -c (612): client, which execs the client command when connect
\*   succeeds and calls die("connect", errno) when it fails;
\* - in server mode: die("no arguments", 1) at 618-619 when no command is
\*   given, before the lock is tried; with a command, on to the lock
IStart(k) ==
    /\ ipc[k] = "idle"
    /\ nstart < MaxStart
    /\ nstart' = nstart + 1
    /\ touched' = touched \ {k}
    /\ \E mode \in {"server", "restart", "client"}, argc \in 0..1 :
          ipc' = [ipc EXCEPT ![k] =
                    CASE mode = "restart" -> "n_d_rmsock"
                      [] mode = "client" -> IF Connectable THEN "idle" ELSE "n_d_rmsock"
                      [] OTHER -> IF argc = 0 THEN "n_d_rmsock" ELSE "i_lock"]
    /\ UNCHANGED <<lockHolder, pidOwner, sockOwner, serverv>>

\* variant of the lock failure that leaves through die instead of exit(1)
ILock_Die(k) ==
    /\ ipc[k] = "i_lock"
    /\ IF lockHolder = 0
       THEN \/ /\ lockHolder' = k
               /\ ipc' = [ipc EXCEPT ![k] = "i_sig"]
            \/ /\ ipc' = [ipc EXCEPT ![k] = "n_d_rmsock"]
               /\ UNCHANGED lockHolder
       ELSE /\ ipc' = [ipc EXCEPT ![k] = "n_d_rmsock"]
            /\ UNCHANGED lockHolder
    /\ UNCHANGED <<pidOwner, sockOwner, touched, nstart, serverv>>

\* delivery.c:624-639: open(LOCKFILE, O_CREAT | O_RDWR), flock(LOCK_EX | LOCK_NB);
\* either failing ends the process with exit(1), not through die
ILock(k) ==
    /\ ipc[k] = "i_lock"
    /\ IF lockHolder = 0
       THEN \/ /\ lockHolder' = k
               /\ ipc' = [ipc EXCEPT ![k] = "i_sig"]
            \/ /\ ipc' = [ipc EXCEPT ![k] = "i_failed"]
               /\ UNCHANGED lockHolder
       ELSE /\ ipc' = [ipc EXCEPT ![k] = "i_failed"]
            /\ UNCHANGED lockHolder
    /\ UNCHANGED <<pidOwner, sockOwner, touched, nstart, serverv>>

\* delivery.c:645-657: setenv, the signal handlers
ISignals(k) ==
    /\ ipc[k] = "i_sig"
    /\ ipc' = [ipc EXCEPT ![k] = "i_pid"]
    /\ UNCHANGED <<lockHolder, pidOwner, sockOwner, touched, nstart, serverv>>

\* delivery.c:659, wrt_pidfile (194-204): PIDFILE is written, or fopen fails
IWrtPidfile(k) ==
    /\ ipc[k] = "i_pid"
    /\ \/ /\ pidOwner' = k
          /\ touched' = touched \cup {k}
          /\ ipc' = [ipc EXCEPT ![k] = "i_sock"]
       \/ /\ ipc' = [ipc EXCEPT ![k] = "i_d_rmsock"]
          /\ UNCHANGED <<pidOwner, touched>>
    /\ UNCHANGED <<lockHolder, sockOwner, nstart, serverv>>

\* delivery.c:267-291: a stale SOCKFILE is unlinked, the socket bound and listened on
ISockFirst(k) ==
    /\ ipc[k] = "i_sock"
    /\ sockOwner' = k
    /\ touched' = touched \cup {k}
    /\ ipc' = [ipc EXCEPT ![k] = "i_serve"]
    /\ UNCHANGED <<lockHolder, pidOwner, nstart, serverv>>

\* the server leaves through die (delivery.c:143): the loop ended (673), a
\* fatal error, or sig_die (158) once the handlers are installed
IDie(k) ==
    /\ ipc[k] \in {"i_pid", "i_sock", "i_serve"}
    /\ ipc' = [ipc EXCEPT ![k] = "i_d_rmsock"]
    /\ UNCHANGED <<lockHolder, pidOwner, sockOwner, touched, nstart, serverv>>

\* delivery.c:145, rm_sockfile (232-240): unlink(SOCKFILE), whoever bound it
IDieRmSock(k) ==
    /\ ipc[k] \in {"i_d_rmsock", "n_d_rmsock"}
    /\ sockOwner' = 0
    /\ touched' = touched \cup {k}
    /\ ipc' = [ipc EXCEPT ![k] = IF ipc[k] = "i_d_rmsock" THEN "i_d_rmpid" ELSE "n_d_rmpid"]
    /\ UNCHANGED <<lockHolder, pidOwner, nstart, serverv>>

\* delivery.c:146, rm_pidfile (189-192): unlink(PIDFILE), whoever wrote it
IDieRmPid(k) ==
    /\ ipc[k] \in {"i_d_rmpid", "n_d_rmpid"}
    /\ pidOwner' = 0
    /\ touched' = touched \cup {k}
    /\ ipc' = [ipc EXCEPT ![k] = IF ipc[k] = "i_d_rmpid" THEN "i_d_rest" ELSE "n_d_rest"]
    /\ UNCHANGED <<lockHolder, sockOwner, nstart, serverv>>

\* delivery.c:151-155: close_src, the clients, exit; the process ends and its
\* lock is released
IExit(k) ==
    /\ ipc[k] \in {"i_d_rest", "n_d_rest"}
    /\ lockHolder' = IF lockHolder = k THEN 0 ELSE lockHolder
    /\ ipc' = [ipc EXCEPT ![k] = "idle"]
    /\ UNCHANGED <<pidOwner, sockOwner, touched, nstart, serverv>>

\* delivery.c:631, 637: exit(1) of an invocation that did not get the lock
IFailedExit(k) ==
    /\ ipc[k] = "i_failed"
    /\ ipc' = [ipc EXCEPT ![k] = "idle"]
    /\ UNCHANGED <<lockHolder, pidOwner, sockOwner, touched, nstart, serverv>>

\* SIGKILL (signal(SIGKILL, sig_die) at delivery.c:655 installs nothing): the
\* process ends without die, its lock is released, its files stay
IKill(k) ==
    /\ ipc[k] \in PastLock
    /\ lockHolder' = IF lockHolder = k THEN 0 ELSE lockHolder
    /\ ipc' = [ipc EXCEPT ![k] = "idle"]
    /\ UNCHANGED <<pidOwner, sockOwner, touched, nstart, serverv>>

NextInst ==
    \E k \in Insts :
        \/ IStart(k) \/ ILock(k) \/ ISignals(k) \/ IWrtPidfile(k) \/ ISockFirst(k)
        \/ IDie(k) \/ IDieRmSock(k) \/ IDieRmPid(k) \/ IExit(k) \/ IFailedExit(k)
        \/ IKill(k)

LockSpec == Init /\ [][NextInst]_vars

\* a step in which a system call fails for a reason outside the program: fopen
\* (197), socket/bind/listen (276-290), accept (318), fcntl (170),
\* sysconf/fstat/malloc (414-429), popen (393), fread with a read error (432)
FaultStep ==
    \/ /\ pc \in {"m_pidfile", "c_first", "c_accept", "c_cblock", "r_alloc", "o_popen"}
       /\ pc' = "d_rmsock"
    \/ pc = "r_fread" /\ ~avail /\ prod[src] = "running" /\ pc' = "r_while"

\* the server loop under fair scheduling: the server takes its next step
\* whenever it has one; a call that waits has none until it can return, and
\* no call is bound to fail
FairSpec == Spec /\ WF_vars(Server /\ ~FaultStep)

\* ------------------------------------------------------------------ claims
Unreaped == {p \in Prods : prod[p] \in {"running", "eof", "exited"}}

\* positions between the return of open_src and the end of the loop body
AfterOpen == {"r_assert", "r_alloc", "r_fread", "r_while", "r_check", "w_init",
              "w_loop", "w_write", "w_test", "w_close", "w_shift", "w_dec", "m_while"}

\* positions at which every buffer read so far has been written to the registry
BetweenPasses == {"m_while", "c_first", "c_block", "c_accept", "c_nonblock", "c_cblock",
                  "c_add", "o_test1", "o_test2", "o_popen", "cs_test", "cs_dfl",
                  "cs_pclose", "cs_sig", "cs_null", "cs_reopen", "r_assert", "r_alloc",
                  "r_fread"}

\* C1: at most one invocation of the producer command is live in every
\* reachable state: a producer that is not yet reaped is the one behind src,
\* and popen is reached only with src NULL and every earlier producer reaped.
C1_OneProducer ==
    /\ Cardinality(Unreaped) <= 1
    /\ \A p \in Unreaped : src = p
    /\ pc = "o_popen" => src = 0 /\ Unreaped = {}

C1_Witness == prod[1] = "reaped" /\ prod[2] = "running" /\ src = 2

\* C2: the producer is spawned once for the transition of the registry from
\* empty to non-empty and once per restart request consumed by open_src with
\* clients connected, never while the source is open, never before a client
\* has been accepted.
C2_SpawnCount ==
    ~Dying =>
        /\ Cardinality(Spawned) <= nzero + nrestart
        /\ pc \in AfterOpen => Cardinality(Spawned) = nzero + nrestart
        /\ pc = "o_popen" => src = 0
        /\ Spawned # {} => nzero >= 1
        /\ nzero <= 1

C2_Witness == pc = "r_assert" /\ Cardinality(Spawned) = 2 /\ nzero = 1 /\ nrestart = 1

\* C3: a restart consumed by open_src replaces only the producer: from the
\* test in open_src to the start of the next broadcast the registry is the one
\* the restart found, no connection has been closed, the restart flag is
\* consumed, and on return the old producer has been closed once and exactly
\* one new producer has been spawned.
C3_RestartKeepsClients ==
    (rsnap.on /\ ~Dying) =>
        /\ Registry = rsnap.reg
        /\ closes = rsnap.closes
        /\ \A k \in 1..cnt : conn[Registry[k]] = "open"
        /\ pc \in {"o_test2", "o_popen"} => ~reopen /\ src = 0
        /\ pc \in AfterOpen =>
              /\ src # 0
              /\ src # rsnap.old
              /\ Cardinality(Spawned) = rsnap.spawned + 1
              /\ prod[rsnap.old] = "reaped"
              /\ pcloses[rsnap.old] = 1

C3_Witness == pc = "w_init" /\ rsnap.on /\ cnt = 2 /\ src = 2

\* C4: when write_buf returns, every client still in the registry has been
\* sent the whole buffer of this cycle's read, the same bytes for all, also
\* when a client earlier in the registry failed and was dropped in this pass.
C4_WholeBuffer ==
    pc = "m_while" =>
        /\ buffer = Block(nread)
        /\ \A k \in 1..cnt :
              LET l == log[Registry[k]] IN
                 /\ Len(l) >= bufsz
                 /\ SubSeq(l, Len(l) - bufsz + 1, Len(l)) = buffer

\* a client got part of the buffer and was dropped, a later one is still served
C4_Witness ==
    /\ pc = "m_while"
    /\ cnt >= 1
    /\ \E c \in Conns :
          /\ conn[c] = "closed"
          /\ log[c] # <<>>
          /\ log[c][Len(log[c])] = buffer[1]
          /\ \E k \in 1..cnt : Registry[k] > c

\* C5: when write_buf has dropped client k, the registry is the one before
\* without its k-th entry, in the same order and one shorter, the dropped
\* connection has been closed once, and no other connection has been closed.
C5_DropExactlyOne ==
    (pc = "w_loop" /\ dsnap.on) =>
        /\ Registry = RemoveAt(dsnap.reg, dsnap.k)
        /\ cnt = Len(dsnap.reg) - 1
        /\ closes[dsnap.reg[dsnap.k]] = 1
        /\ conn[dsnap.reg[dsnap.k]] = "closed"
        /\ dsnap.reg[dsnap.k] \notin SeqRange(Registry)
        /\ \A c \in Conns : c # dsnap.reg[dsnap.k] =>
              closes[c] = dsnap.closes[c]
        /\ \A k \in 1..cnt : conn[Registry[k]] = "open"

C5_Witness == pc = "w_loop" /\ dsnap.on /\ dsnap.k = 1 /\ Len(dsnap.reg) = 2

\* C6 as claimed: the server terminates only when the registry is empty after
\* a pump cycle, that is, only through the end of the main loop.
C6_OnlyWhenEmpty == Dying => (dying.cause = "loop" /\ dying.cnt0 = 0)

\* C6 as amended: the main loop ends (die("",0)) exactly when cnt is 0 after
\* write_buf, and goes on to the next iteration exactly when it is not; every
\* other termination is a fatal error or a signal, whatever the registry holds.
C6_LoopExit ==
    /\ [](dying.cause = "loop" => dying.cnt0 = 0)
    /\ []((pc = "exited" /\ dying.code = "0") => dying.cause = "loop")
    /\ [](Dying => dying.cause \in {"loop", "fatal", "signal"})
    /\ [][(pc = "m_while" /\ pc' = "c_first") => cnt > 0]_vars
    /\ [][(pc = "m_while" /\ pc' # pc /\ cnt = 0) => Dying']_vars

C6_Witness == pc = "exited" /\ dying.cause = "loop" /\ dying.code = "0"

\* C7 as claimed: once the peers of all registered clients have gone away and
\* no further client can arrive, the server eventually terminates, and when
\* it has exited the producer is closed.
AllPeersGone ==
    /\ ~Dying
    /\ cnt > 0
    /\ SeqRange(Registry) \subseteq gone
    /\ \A c \in Conns : conn[c] \notin {"none", "pending"}

C7_EventuallyExits == AllPeersGone ~> (~Alive /\ (pc = "exited" => src = 0))

\* C8: at most one invocation is past the lock at a time; an invocation that
\* tries the lock while another holds it fails there, and from its start to
\* its exit it has created or removed neither PIDFILE nor SOCKFILE and the
\* lock stays with its holder.
C8_Singleton ==
    /\ [](Cardinality({k \in Insts : ipc[k] \in PastLock}) <= 1)
    /\ [](\A k \in Insts : ipc[k] \in PastLock <=> lockHolder = k)
    /\ [](\A k \in Insts : ipc[k] \in {"i_lock", "i_failed"} =>
                k \notin touched /\ lockHolder # k)
    /\ [][\A k \in Insts :
            (ipc[k] = "i_lock" /\ lockHolder # 0 /\ ipc'[k] # ipc[k]) =>
                /\ ipc'[k] = "i_failed"
                /\ UNCHANGED <<lockHolder, pidOwner, sockOwner>>]_vars
    /\ [][\A k \in Insts :
            (ipc[k] = "i_failed" /\ ipc'[k] # ipc[k]) =>
                /\ ipc'[k] = "idle"
                /\ UNCHANGED <<lockHolder, pidOwner, sockOwner>>]_vars

C8_Witness ==
    \E k, j \in Insts :
        /\ ipc[k] = "i_serve"
        /\ ipc[j] = "i_failed"
        /\ lockHolder = k
        /\ pidOwner = k
        /\ sockOwner = k

\* C9: what a connection has been sent is the stream from the buffer read
\* after it was put into the registry onwards, byte after byte with no gap,
\* duplicate or replay; between two passes a registered client has been sent
\* all of every buffer read since then.
C9_ContiguousFromJoin ==
    ~Dying =>
        \A c \in Conns :
            /\ log[c] = [k \in 1..Len(log[c]) |-> joined[c] * BufSz + k]
            /\ Len(log[c]) <= (nread - joined[c]) * BufSz
            /\ (pc \in BetweenPasses /\ c \in SeqRange(Registry)) =>
                  Len(log[c]) = (nread - joined[c]) * BufSz

C9_Witness ==
    /\ pc = "m_while"
    /\ nread = 2
    /\ \E a, b \in SeqRange(Registry) :
          /\ joined[a] = 0
          /\ joined[b] = 1
          /\ Len(log[a]) = 2 * BufSz
          /\ log[b] = Block(2)

\* C10 as claimed: when the server has exited, SOCKFILE and PIDFILE are
\* removed, the source is closed and reaped and every accepted connection has
\* been closed by the server, the steps taken in that order.
C10_CleanExit ==
    /\ pc \in {"d_clients", "d_exit", "exited"} => ~sockFile /\ ~pidFile /\ src = 0
    /\ pc \in {"d_exit", "exited"} => cnt = 0
    /\ pc = "exited" =>
          /\ Unreaped = {}
          /\ \A c \in Conns : conn[c] # "open"

\* C11 as claimed: when fread has returned less than one buffer at the end
\* of the producer's output, the server goes into the cleanup and terminates
\* with a non-zero status; it does not call fread again, whatever errno held
\* before the call.
ReadSawEof == pc = "r_while" /\ err < 1 /\ src # 0 /\ prod[src] = "eof"

C11_ShortReadFatal ==
    /\ ReadSawEof ~> (Dying /\ dying.code # "0")
    /\ [][ReadSawEof => pc' # "r_fread"]_vars

\* C12: restart requests taken between two consumptions by open_src are
\* served by one close/reopen cycle: each cycle answers at least one request
\* taken since the cycle before, and however many there were, when open_src
\* returns the old producer has been closed once, one new producer has been
\* spawned and open_src found the flag cleared.
C12_Coalesce ==
    (rsnap.on /\ ~Dying) =>
        /\ rsnap.hups >= 1
        /\ pc \in {"o_test2", "o_popen"} => ~reopen
        /\ pc \in AfterOpen =>
              /\ Cardinality(Spawned) = rsnap.spawned + 1
              /\ pcloses[rsnap.old] = 1
              /\ nhup = 0 => ~reopen

C12_Witness ==
    /\ pc = "w_init"
    /\ ~Dying
    /\ rsnap.on
    /\ rsnap.hups = 2
    /\ ~reopen
    /\ Cardinality(Spawned) = rsnap.spawned + 1

\* C13: the registry never holds more than MAXCLIENT clients; the step of
\* check_for_new_clients that finds the registry full closes the connection
\* just accepted, once, leaves the registry, the other connections and the
\* source as they are, and goes back to accept.
C13_Overflow ==
    /\ [](cnt <= MAXCLIENT)
    /\ [][(cnt = MAXCLIENT /\ AcceptAdd) =>
            /\ fd' = fd /\ cnt' = cnt
            /\ conn'[client_fd] = "closed"
            /\ closes'[client_fd] = closes[client_fd] + 1
            /\ \A c \in Conns \ {client_fd} : conn'[c] = conn[c] /\ closes'[c] = closes[c]
            /\ src' = src /\ prod' = prod
            /\ dying' = dying
            /\ pc' = "c_accept"]_vars

C13_Witness ==
    /\ ~Dying
    /\ pc = "c_accept"
    /\ cnt = MAXCLIENT
    /\ SeqRange(Registry) = 1..MAXCLIENT
    /\ conn[MaxConn] = "closed"
    /\ closes[MaxConn] = 1

\* C14 as claimed: every producer the server has spawned was started with
\* _DELIVERY_PID equal to the server's pid, whatever the environment the
\* server itself was started in.
C14_Marker == \A p \in Spawned : penv[p] = "own"

\* C15 as claimed: in every reachable state, src != NULL implies cnt > 0.
C15_OpenImpliesClients == src # 0 => cnt > 0

\* C15 as amended: the source is open with an empty registry only from the
\* drop of the last client in write_buf to close_src in die, which the server
\* reaches without accepting, reading or writing in between; everywhere else
\* src != NULL implies cnt > 0, popen is called only with clients in the
\* registry, and the server does not exit with the source open.
C15_OpenImpliesClientsButLastDrop ==
    /\ (src # 0 /\ cnt = 0) =>
          \/ pc \in {"w_loop", "m_while"}
          \/ Dying /\ pc \in {"d_rmsock", "d_rmpid", "cs_test", "cs_dfl", "cs_pclose",
                              "cs_sig", "cs_null", "aborted"}
    /\ pc = "o_popen" => cnt > 0 /\ src = 0
    /\ pc \in {"d_clients", "d_exit", "exited"} => src = 0

C15_Witness == pc = "m_while" /\ src # 0 /\ cnt = 0 /\ prod[src] = "running"

\* C16 as claimed: in every reachable state, a signal handler may run in any,
\* the entries fd[0..cnt) are open connections that accept has returned,
\* without duplicates, cnt <= MAXCLIENT, and no connection has been closed
\* more than once.
C16_RegistryLive ==
    /\ cnt <= MAXCLIENT
    /\ \A k \in 1..cnt : Registry[k] \in Conns /\ conn[Registry[k]] = "open"
    /\ \A k, l \in 1..cnt : Registry[k] = Registry[l] => k = l
    /\ \A c \in Conns : closes[c] <= 1

\* C17: whenever the server is about to call accept, the listening socket is
\* in blocking mode if and only if cnt == 0; a connection is in blocking mode
\* when it is appended to the registry, and so is every registered client.
C17_BlockingIffIdle ==
    ~Dying =>
        /\ pc = "c_accept" => (lblock <=> cnt = 0)
        /\ pc = "c_add" => client_fd \in blocking
        /\ SeqRange(Registry) \subseteq blocking

C17_Witness ==
    /\ ~Dying
    /\ pc = "c_accept"
    /\ cnt = 2
    /\ ~lblock
    /\ SeqRange(Registry) \subseteq blocking
    /\ Pending # {}

\* positions inside read_buf and write_buf
ReadWrite == {"r_assert", "r_alloc", "r_fread", "r_while", "r_check", "w_init",
              "w_loop", "w_write", "w_test", "w_close", "w_shift", "w_dec"}

\* C18: a step in which reopen_src takes a restart request sets the restart
\* flag and leaves the source, the producers, the registry, the connections
\* and the buffer as they are; no step taken inside read_buf or write_buf
\* closes or spawns a producer or changes src.
C18_HandlerOnlySetsFlag ==
    /\ [][(nhup' > nhup \/ (reopen' /\ ~reopen)) =>
            /\ reopen'
            /\ UNCHANGED <<src, prod, avail, pcloses, fd, cnt, buffer, bufsz, nread,
                           conn, closes, log, dying>>]_vars
    /\ [][(pc \in ReadWrite) =>
            /\ src' = src
            /\ pcloses' = pcloses
            /\ {p \in Prods : prod'[p] = "none"} = {p \in Prods : prod[p] = "none"}
            /\ {p \in Prods : prod'[p] = "reaped"} = {p \in Prods : prod[p] = "reaped"}]_vars

C18_Witness ==
    /\ pc = "w_write"
    /\ reopen
    /\ nhup >= 1
    /\ src # 0
    /\ prod[src] = "running"
    /\ pcloses[src] = 0
    /\ cnt >= 1

\* C19 as claimed: a restart request taken while the producer is open is
\* eventually consumed, the flag cleared by the close/reopen cycle, unless
\* first the server loses its last client, terminates, or the producer ends
\* its output.
C19_RestartConsumed ==
    (reopen /\ ~Dying /\ src # 0 /\ cnt > 0) ~>
        (~reopen \/ Dying \/ cnt = 0 \/ (src # 0 /\ prod[src] # "running"))

\* C20 as claimed: a producer that has exited on its own while it was the
\* open source has put the server on the fatal path, which never spawns
\* again; close_src calls pclose only with SIGCHLD at its default disposition
\* and has reaped the child before it installs sig_die again.
C20_ChildExitFatal ==
    /\ \A p \in Prods : prod[p] = "exited" => Dying
    /\ Dying => pc \notin {"o_test2", "o_popen"}
    /\ pc = "cs_pclose" => chld = "dfl"
    /\ pc = "cs_sig" => prod[src] = "reaped"

\* C20 as amended: a producer that exits on its own while sig_die is
\* installed for SIGCHLD puts the server on the fatal path, which never spawns
\* again; the one exception is an exit that falls between
\* signal(SIGCHLD, SIG_DFL) and pclose inside close_src, which goes unnoticed,
\* so that a restart in progress goes on to spawn the next producer. close_src
\* calls pclose only with SIGCHLD at its default disposition and has reaped
\* the child before it installs sig_die again.
C20_ChildExitPolicy ==
    /\ \A p \in Prods : prod[p] = "exited" =>
          \/ Dying
          \/ pc = "cs_pclose" /\ chld = "dfl" /\ p = src
    /\ Dying => pc \notin {"o_test2", "o_popen"}
    /\ (pc = "d_rmsock" /\ dying.code = "SIGCHLD") => \E p \in Prods : prod[p] = "exited"
    /\ pc = "cs_pclose" => chld = "dfl"
    /\ pc = "cs_sig" => prod[src] = "reaped"
    /\ (chld = "dfl" /\ ~Dying) => pc \in {"cs_pclose", "cs_sig"}

C20_Witness ==
    /\ pc = "d_rmsock"
    /\ dying.cause = "signal"
    /\ dying.code = "SIGCHLD"
    /\ src # 0
    /\ prod[src] = "exited"
    /\ cnt >= 1

\* C21: assert(src) at the entry of read_buf never fails: check_for_new_clients
\* returns only with cnt >= 1, read_buf is entered only with cnt >= 1 and the
\* source open, also right after a restart, and the source stays open
\* throughout read_buf; the process never ends through the assertion.
C21_AssertSrc ==
    /\ pc = "o_test1" => cnt >= 1
    /\ pc = "r_assert" => src # 0 /\ cnt >= 1 /\ prod[src] \in {"running", "eof"}
    /\ pc \in {"r_alloc", "r_fread", "r_while", "r_check"} => src # 0
    /\ pc = "aborted" => Dying

C21_Witness ==
    /\ pc = "r_assert"
    /\ rsnap.on
    /\ src # 0
    /\ src # rsnap.old
    /\ prod[rsnap.old] = "reaped"

\* C22 as claimed: pclose is called at most once on the handle of a producer,
\* whatever the point at which a termination signal arrives, and exactly once
\* on every handle by the time the server has exited.
C22_PcloseOnce ==
    /\ \A p \in Prods : pcloses[p] <= 1
    /\ pc = "exited" => \A p \in Spawned : pcloses[p] = 1

\* C23 as claimed: while an invocation serves, SOCKFILE and PIDFILE are the
\* ones it made, whatever other invocations (restart requests, clients whose
\* connect fails, starts without a command) have run in the meantime: a new
\* client can connect and a restart request finds the server's pid.
C23_FilesStayWithServer ==
    \A k \in Insts : ipc[k] = "i_serve" => pidOwner = k /\ sockOwner = k

====
